---- MODULE Spec2Model ----
(***************************************************************************)
(* State-machine model of the snake game session (src/src/main.rs):        *)
(* GameState and Snake with the three event handlers update,               *)
(* key_down_event and resize_event.  Times are in milliseconds, window     *)
(* sizes in pixels, grid positions in cells.                               *)
(* screen_w, screen_h are the drawable size of the window, which belongs   *)
(* to the platform: GameState::new reads it and resize_event is told it.   *)
(***************************************************************************)
EXTENDS Integers, Sequences, FiniteSets, TLC

VARIABLES mode, snake, food_x, food_y, score, time_since_last_update,
          grid_width, grid_height, pc, screen_w, screen_h, last_event

\* last_event is a history variable: the handler that produced the current
\* state, the mode it was called in, and for a key event whether it carried
\* a keycode.  No handler reads it.
vars == <<mode, snake, food_x, food_y, score, time_since_last_update,
          grid_width, grid_height, pc, screen_w, screen_h, last_event>>

\* ---------------------------------------------------------------- bounds
\* Width of the largest window, in grid columns.
MaxCols == 5

\* Highest score of the sessions the speed curve is followed on.
MaxScore == 30

\* ------------------------------------------------------------- constants
BLOCK_SIZE == 24
BaseIntervalMs == 150
SpeedUpMs == 5
MinIntervalMs == 50

\* ----------------------------------------------------------------- types
GameMode == {"Menu", "Playing", "GameOver"}

Direction == {"Up", "Down", "Left", "Right"}

Block(x, y) == [x |-> x, y |-> y]

\* Key codes the handler distinguishes, one "other" key (Space), and
\* NoKey for a key event whose keycode is None.
KeyCodes == {"Return", "Up", "Down", "Left", "Right", "W", "A", "S", "D", "Space"}
KeyInputs == KeyCodes \cup {"NoKey"}

\* Frame times delivered by the platform (ctx.time.delta()), in ms: the
\* initial interval itself and half of it, so that the accumulator can land
\* exactly on the interval (75 + 75 = 150) as well as below and above it.
ElapsedMs == {75, 150}

\* Window sizes delivered by the platform, in pixels.  Widths: a pixel short
\* of 2 cells (too small for food), the largest window, and a pixel short
\* of it.  Heights: a pixel short of 2 cells, and 4 cells, the lowest
\* window in which the fresh snake in row 2 is off the bottom wall.
WindowWidths == {BLOCK_SIZE * 2 - 1, BLOCK_SIZE * MaxCols - 1, BLOCK_SIZE * MaxCols}
WindowHeights == {BLOCK_SIZE * 2 - 1, BLOCK_SIZE * 4}

\* Variant: the division rounds up instead of truncating.
ToGrid_ceil(px) == (px + BLOCK_SIZE - 1) \div BLOCK_SIZE

\* (px / BLOCK_SIZE) as i32, for a non-negative pixel size.
ToGrid(px) == px \div BLOCK_SIZE

\* ------------------------------------------------------------- Direction
\* Variant: opposite returns its argument.
opposite_identity(d) == d

opposite(d) ==
    CASE d = "Up" -> "Down"
      [] d = "Down" -> "Up"
      [] d = "Left" -> "Right"
      [] d = "Right" -> "Left"

\* ----------------------------------------------------------------- Snake
\* tail is an Option<Block>: <<>> is None, <<b>> is Some(b).
Snake_new(x, y) ==
    [direction |-> "Right",
     body |-> <<Block(x, y), Block(x - 1, y), Block(x - 2, y)>>,
     tail |-> <<>>]

\* Variant: the vertical axis points up (Up adds 1 to y, Down subtracts 1).
NewHead_y_upwards(head, d) ==
    CASE d = "Up" -> Block(head.x, head.y + 1)
      [] d = "Down" -> Block(head.x, head.y - 1)
      [] d = "Left" -> Block(head.x - 1, head.y)
      [] d = "Right" -> Block(head.x + 1, head.y)

NewHead(head, d) ==
    CASE d = "Up" -> Block(head.x, head.y - 1)
      [] d = "Down" -> Block(head.x, head.y + 1)
      [] d = "Left" -> Block(head.x - 1, head.y)
      [] d = "Right" -> Block(head.x + 1, head.y)

\* Variant: the last segment is removed without a new head being pushed.
move_forward_pop_only(s) ==
    [s EXCEPT !.body = SubSeq(s.body, 1, Len(s.body) - 1),
              !.tail = <<s.body[Len(s.body)]>>]

move_forward(s) ==
    LET head == Head(s.body)
        pushed == <<NewHead(head, s.direction)>> \o s.body
    IN [s EXCEPT !.body = SubSeq(pushed, 1, Len(pushed) - 1),
                 !.tail = <<pushed[Len(pushed)]>>]

head_position(s) == Head(s.body)

is_overlapping_tail(s) ==
    \E i \in 2..Len(s.body) : s.body[i] = head_position(s)

\* ------------------------------------------------------------- GameState
\* A GameState value; pc is the control position: "event_loop" between
\* events, "add_food" inside the sampling loop of add_food.
Self ==
    [mode |-> mode, snake |-> snake, food_x |-> food_x, food_y |-> food_y,
     score |-> score, time_since_last_update |-> time_since_last_update,
     grid_width |-> grid_width, grid_height |-> grid_height, pc |-> pc]

Becomes(g) ==
    /\ mode' = g.mode
    /\ snake' = g.snake
    /\ food_x' = g.food_x
    /\ food_y' = g.food_y
    /\ score' = g.score
    /\ time_since_last_update' = g.time_since_last_update
    /\ grid_width' = g.grid_width
    /\ grid_height' = g.grid_height
    /\ pc' = g.pc

\* Cells gen_range(1..grid_width-1) x gen_range(1..grid_height-1) can return.
SampleCells(gw, gh) == {Block(x, y) : x \in 1..(gw - 2), y \in 1..(gh - 2)}

Occupied(body) == {body[i] : i \in 1..Len(body)}

\* The rejection loop ends on any sampled cell no body segment occupies;
\* when there is none it never ends and control stays in add_food.
\* Variant: the sampled cell is accepted without the occupancy test.
add_food_unchecked(g) ==
    IF g.grid_width > 2 /\ g.grid_height > 2
    THEN {[g EXCEPT !.food_x = c.x, !.food_y = c.y] :
              c \in SampleCells(g.grid_width, g.grid_height)}
    ELSE {g}

\* Variant: one dimension above 2 is enough for sampling to start (|| for &&).
add_food_either_dimension(g) ==
    IF g.grid_width > 2 \/ g.grid_height > 2
    THEN LET free == SampleCells(g.grid_width, g.grid_height) \ Occupied(g.snake.body)
         IN IF free = {}
            THEN {[g EXCEPT !.pc = "add_food"]}
            ELSE {[g EXCEPT !.food_x = c.x, !.food_y = c.y] : c \in free}
    ELSE {g}

add_food(g) ==
    IF g.grid_width > 2 /\ g.grid_height > 2
    THEN LET free == SampleCells(g.grid_width, g.grid_height) \ Occupied(g.snake.body)
         IN IF free = {}
            THEN {[g EXCEPT !.pc = "add_food"]}
            ELSE {[g EXCEPT !.food_x = c.x, !.food_y = c.y] : c \in free}
    ELSE {g}

restart(g) ==
    add_food([g EXCEPT !.snake = Snake_new(3, 2), !.score = 0, !.mode = "Playing"])

\* Variant: the score survives the return to the menu.
reset_to_menu_keeps_score(g) ==
    add_food([g EXCEPT !.snake = Snake_new(3, 2), !.mode = "Menu"])

reset_to_menu(g) ==
    add_food([g EXCEPT !.snake = Snake_new(3, 2), !.score = 0, !.mode = "Menu"])

GameState_new(drawable_w, drawable_h) ==
    add_food([mode |-> "Menu", snake |-> Snake_new(3, 2), food_x |-> 0, food_y |-> 0,
              score |-> 0, time_since_last_update |-> 0,
              grid_width |-> ToGrid(drawable_w), grid_height |-> ToGrid(drawable_h),
              pc |-> "event_loop"])

Max(a, b) == IF a >= b THEN a ELSE b

\* Variant: the interval is not clamped from below.
UpdateInterval_unclamped(sc) == BaseIntervalMs - sc * SpeedUpMs

UpdateInterval(sc) == Max(BaseIntervalMs - sc * SpeedUpMs, MinIntervalMs)

\* Variant: the wall test is strict on the far sides (> instead of >=).
HitsWall_strict(g, h) ==
    \/ h.x <= 0
    \/ h.x > g.grid_width - 1
    \/ h.y <= 0
    \/ h.y > g.grid_height - 1

HitsWall(g, h) ==
    \/ h.x <= 0
    \/ h.x >= g.grid_width - 1
    \/ h.y <= 0
    \/ h.y >= g.grid_height - 1

\* Variant: only the walls end the game, running into the body does not.
LossCheck_walls_only(g, h) ==
    IF g.pc = "event_loop" /\ HitsWall(g, h)
    THEN [g EXCEPT !.mode = "GameOver"]
    ELSE g

\* Lines 186-193; not reached while add_food has not returned.
LossCheck(g, h) ==
    IF g.pc = "event_loop" /\ (HitsWall(g, h) \/ is_overlapping_tail(g.snake))
    THEN [g EXCEPT !.mode = "GameOver"]
    ELSE g

\* Variant: the removed tail is dropped instead of being appended again.
EatFood_no_growth(g, h) ==
    IF h.x = g.food_x /\ h.y = g.food_y
    THEN add_food([g EXCEPT !.snake.tail = <<>>, !.score = @ + 1])
    ELSE {g}

\* Lines 178-184.
EatFood(g, h) ==
    IF h.x = g.food_x /\ h.y = g.food_y
    THEN add_food([g EXCEPT !.snake.body = IF g.snake.tail # <<>>
                                            THEN Append(@, g.snake.tail[1])
                                            ELSE @,
                            !.snake.tail = <<>>,
                            !.score = @ + 1])
    ELSE {g}

Tick(g) ==
    LET moved == [g EXCEPT !.snake = move_forward(@), !.time_since_last_update = 0]
        h == head_position(moved.snake)
    IN {LossCheck(e, h) : e \in EatFood(moved, h)}

\* Variant: the mode is not looked at; time accumulates in every mode.
GameState_update_any_mode(g, dt) ==
    LET acc == [g EXCEPT !.time_since_last_update = @ + dt]
    IN IF acc.time_since_last_update > UpdateInterval(acc.score)
       THEN Tick(acc)
       ELSE {acc}

\* Variant: the tick fires when the accumulator reaches the interval (>=).
GameState_update_at_interval(g, dt) ==
    IF g.mode # "Playing"
    THEN {g}
    ELSE LET acc == [g EXCEPT !.time_since_last_update = @ + dt]
         IN IF acc.time_since_last_update >= UpdateInterval(acc.score)
            THEN Tick(acc)
            ELSE {acc}

GameState_update(g, dt) ==
    IF g.mode # "Playing"
    THEN {g}
    ELSE LET acc == [g EXCEPT !.time_since_last_update = @ + dt]
         IN IF acc.time_since_last_update > UpdateInterval(acc.score)
            THEN Tick(acc)
            ELSE {acc}

GameState_resize_event(g, width, height) ==
    reset_to_menu([g EXCEPT !.grid_width = ToGrid(width), !.grid_height = ToGrid(height)])

KeyDirection(keycode) ==
    CASE keycode \in {"Up", "W"} -> <<"Up">>
      [] keycode \in {"Down", "S"} -> <<"Down">>
      [] keycode \in {"Left", "A"} -> <<"Left">>
      [] keycode \in {"Right", "D"} -> <<"Right">>
      [] OTHER -> <<>>

\* Variant: a key press in GameOver starts a new game instead of the menu.
GameState_key_down_event_restarts(g, input) ==
    IF input = "NoKey"
    THEN {g}
    ELSE CASE g.mode = "Menu" ->
                IF input = "Return" THEN restart(g) ELSE {g}
           [] g.mode = "Playing" ->
                LET dir == KeyDirection(input)
                IN IF dir # <<>> /\ dir[1] # opposite(g.snake.direction)
                   THEN {[g EXCEPT !.snake.direction = dir[1]]}
                   ELSE {g}
           [] g.mode = "GameOver" -> restart(g)

\* Variant: in Menu every key starts the game, not only Return.
GameState_key_down_event_any_key_starts(g, input) ==
    IF input = "NoKey"
    THEN {g}
    ELSE CASE g.mode = "Menu" -> restart(g)
           [] g.mode = "Playing" ->
                LET dir == KeyDirection(input)
                IN IF dir # <<>> /\ dir[1] # opposite(g.snake.direction)
                   THEN {[g EXCEPT !.snake.direction = dir[1]]}
                   ELSE {g}
           [] g.mode = "GameOver" -> reset_to_menu(g)

GameState_key_down_event(g, input) ==
    IF input = "NoKey"
    THEN {g}
    ELSE CASE g.mode = "Menu" ->
                IF input = "Return" THEN restart(g) ELSE {g}
           [] g.mode = "Playing" ->
                LET dir == KeyDirection(input)
                IN IF dir # <<>> /\ dir[1] # opposite(g.snake.direction)
                   THEN {[g EXCEPT !.snake.direction = dir[1]]}
                   ELSE {g}
           [] g.mode = "GameOver" -> reset_to_menu(g)

\* --------------------------------------------------------------- actions
Event(op, keycode) == [op |-> op, from |-> mode, keycode |-> keycode]

\* The window is created at its largest size (main, lines 449-456).
Init ==
    /\ screen_w = BLOCK_SIZE * MaxCols
    /\ screen_h = BLOCK_SIZE * 4
    /\ \E g \in GameState_new(screen_w, screen_h) :
        /\ mode = g.mode
        /\ snake = g.snake
        /\ food_x = g.food_x
        /\ food_y = g.food_y
        /\ score = g.score
        /\ time_since_last_update = g.time_since_last_update
        /\ grid_width = g.grid_width
        /\ grid_height = g.grid_height
        /\ pc = g.pc
    /\ last_event = [op |-> "new", from |-> "Menu", keycode |-> FALSE]

update(dt) ==
    /\ pc = "event_loop"
    /\ last_event' = Event("update", FALSE)
    /\ \E g \in GameState_update(Self, dt) : Becomes(g)
    /\ UNCHANGED <<screen_w, screen_h>>

key_down_event(input) ==
    /\ pc = "event_loop"
    /\ last_event' = Event("key_down_event", input # "NoKey")
    /\ \E g \in GameState_key_down_event(Self, input) : Becomes(g)
    /\ UNCHANGED <<screen_w, screen_h>>

resize_event(width, height) ==
    /\ pc = "event_loop"
    /\ last_event' = Event("resize_event", FALSE)
    /\ screen_w' = width
    /\ screen_h' = height
    /\ \E g \in GameState_resize_event(Self, width, height) : Becomes(g)

Next ==
    \/ \E dt \in ElapsedMs : update(dt)
    \/ \E input \in KeyInputs : key_down_event(input)
    \/ \E width \in WindowWidths, height \in WindowHeights : resize_event(width, height)

Spec == Init /\ [][Next]_vars

\* The event loop of ggez calls update once per frame for as long as the
\* previous handler has returned: an Update that stays possible is taken.
FrameArrives == \E dt \in ElapsedMs : update(dt)

FairSpec == Spec /\ WF_vars(FrameArrives)

\* ------------------------------------------------------- the speed curve
\* Scores of 20 and more need a board far larger than MaxCols.  SpeedSpec
\* follows sessions on a window MaxScore + 6 columns wide, taken up at the
\* moment the score-th food in a row has been eaten on the way along row 2
\* (the snake reaches from column 1 to column score + 3, the eating tick has
\* just zeroed the accumulator and taken the tail, food has been placed on
\* the free cell (1,1)); from there only frames arrive, a short one of
\* 5 ms or a long one of 155 ms.
SpeedCols == MaxScore + 6

SpeedElapsedMs == {5, 155}

SpeedInit ==
    /\ screen_w = BLOCK_SIZE * SpeedCols
    /\ screen_h = BLOCK_SIZE * 4
    /\ grid_width = ToGrid(screen_w)
    /\ grid_height = ToGrid(screen_h)
    /\ mode = "Playing"
    /\ score \in 0..MaxScore
    /\ snake = [direction |-> "Right",
                body |-> [i \in 1..(score + 3) |-> Block(score + 4 - i, 2)],
                tail |-> <<>>]
    /\ food_x = 1
    /\ food_y = 1
    /\ time_since_last_update = 0
    /\ pc = "event_loop"
    /\ last_event = [op |-> "update", from |-> "Playing", keycode |-> FALSE]

SpeedNext == \E dt \in SpeedElapsedMs : update(dt)

SpeedSpec == SpeedInit /\ [][SpeedNext]_vars

\* ---------------------------------------------------------------- claims
\* Vocabulary of the claims, written out independently of the handlers.
Idle == pc = "event_loop"

KeyEvent == last_event'.op = "key_down_event"

\* A key-down event that carries a keycode.
KeyPressed == KeyEvent /\ last_event'.keycode

Resized == last_event'.op = "resize_event"

Updated == last_event'.op = "update"

\* An Update call that moved the snake.
Ticked == Updated /\ snake'.body # snake.body

FreshSnake ==
    [direction |-> "Right",
     body |-> <<[x |-> 3, y |-> 2], [x |-> 2, y |-> 2], [x |-> 1, y |-> 2]>>,
     tail |-> <<>>]

OnBody(body, x, y) == \E i \in 1..Len(body) : body[i].x = x /\ body[i].y = y

InInterior(x, y, gw, gh) == 1 <= x /\ x <= gw - 2 /\ 1 <= y /\ y <= gh - 2

\* C1: the mode starts as Menu and changes only Menu -> Playing on the
\* confirm key, Playing -> GameOver on an Update, GameOver -> Menu on a key
\* press, and anything -> Menu on a resize; never Menu -> GameOver nor
\* GameOver -> Playing.
C1_ModeTransitions ==
    [][/\ last_event.op = "new" => mode = "Menu"
       /\ mode' # mode =>
            \/ /\ mode = "Menu" /\ mode' = "Playing"
               /\ key_down_event("Return")
            \/ mode = "Playing" /\ mode' = "GameOver" /\ Updated
            \/ mode = "GameOver" /\ mode' = "Menu" /\ KeyPressed
            \/ mode' = "Menu" /\ Resized]_vars

\* The session went Menu -> Playing -> GameOver and a key brought it back.
C1_Witness ==
    /\ mode = "Menu" /\ time_since_last_update = 0
    /\ last_event.op = "key_down_event"
    /\ last_event.from = "GameOver"
    /\ grid_width > 2 /\ grid_height > 2

\* C2: after a tick in Playing the mode is GameOver exactly when the new
\* head is on or beyond the border ring or coincides with a body segment
\* at index >= 1 of the body after growth; otherwise it stays Playing.
C2_LossCondition ==
    [][Ticked =>
        LET b == snake'.body
            lost == \/ b[1].x <= 0
                    \/ b[1].x >= grid_width - 1
                    \/ b[1].y <= 0
                    \/ b[1].y >= grid_height - 1
                    \/ \E i \in 2..Len(b) : b[i].x = b[1].x /\ b[i].y = b[1].y
        IN /\ mode = "Playing"
           /\ mode' = IF lost THEN "GameOver" ELSE "Playing"]_vars

\* A tick ended the game by self-collision strictly inside the walls.
C2_Witness ==
    /\ mode = "GameOver"
    /\ last_event.op = "update"
    /\ InInterior(snake.body[1].x, snake.body[1].y, grid_width, grid_height)
    /\ \E i \in 2..Len(snake.body) : snake.body[i] = snake.body[1]

\* C3 as stated: between events the food cell is never on the snake and
\* always strictly inside the border ring.
C3_FoodAlwaysValid ==
    Idle => /\ ~OnBody(snake.body, food_x, food_y)
            /\ InInterior(food_x, food_y, grid_width, grid_height)

\* C3 amended: the same, for grids wider and taller than 2 cells.
C3_FoodValidOnPlayableGrid ==
    (Idle /\ grid_width > 2 /\ grid_height > 2) =>
        /\ ~OnBody(snake.body, food_x, food_y)
        /\ InInterior(food_x, food_y, grid_width, grid_height)

\* The snake has eaten and grown on a playable grid, food placed again.
C3_Witness ==
    /\ Idle /\ mode = "Playing" /\ score >= 2
    /\ grid_width > 2 /\ grid_height > 2
    /\ last_event.op = "update"

\* C4: the new head produced by a tick is never the cell that was the neck
\* (body[1], the second segment) before the tick, i.e. a tick never moves
\* opposite to the previous move.
C4_NeverReversesIntoNeck ==
    [][Ticked => snake'.body[1] # snake.body[2]]_vars

\* AddFood has run to completion: on a grid wider and taller than 2 the food
\* is an interior cell off the body, on a smaller grid it is left as it was.
FoodReassigned ==
    /\ pc' = "event_loop"
    /\ IF grid_width' > 2 /\ grid_height' > 2
       THEN /\ InInterior(food_x', food_y', grid_width', grid_height')
            /\ ~OnBody(snake'.body, food_x', food_y')
       ELSE food_x' = food_x /\ food_y' = food_y

\* C5: a tick moves first, then eats.  If the new head is on the food the
\* removed segment is back as the last segment (length + 1), the score goes
\* up by 1 and AddFood reassigns the food; otherwise score, food and length
\* are unchanged.
C5_TickEatsAndGrows ==
    [][Ticked =>
        LET old == snake.body
            new == snake'.body
            n == Len(old)
        IN IF new[1].x = food_x /\ new[1].y = food_y
           THEN /\ Len(new) = n + 1
                /\ SubSeq(new, 2, n + 1) = old
                /\ score' = score + 1
                /\ FoodReassigned
           ELSE /\ Len(new) = n
                /\ SubSeq(new, 2, n) = SubSeq(old, 1, n - 1)
                /\ score' = score
                /\ food_x' = food_x /\ food_y' = food_y]_vars

\* A Restart (Return in Menu) or a ResetToMenu (key in GameOver, resize).
Restarted == mode = "Menu" /\ key_down_event("Return")

WasReset == Resized \/ (mode = "GameOver" /\ KeyPressed)

\* C6: after every Restart and ResetToMenu the snake is the fresh snake with
\* no stored tail, score = 0 and time_since_last_update = 0, and Restart and
\* ResetToMenu themselves leave the grid dimensions as they were.
C6_ResetsEveryField ==
    [][(Restarted \/ WasReset) =>
        /\ snake' = FreshSnake
        /\ score' = 0
        /\ time_since_last_update' = 0
        /\ ~Resized => (grid_width' = grid_width /\ grid_height' = grid_height)]_vars

\* C7: a resize in any mode gives mode = Menu, score = 0, a fresh snake and
\* grid dimensions floor(width / 24), floor(height / 24).
C7_ResizeResets ==
    [][Resized =>
        /\ mode' = "Menu"
        /\ score' = 0
        /\ snake' = FreshSnake
        /\ 24 * grid_width' <= screen_w' /\ screen_w' < 24 * (grid_width' + 1)
        /\ 24 * grid_height' <= screen_h' /\ screen_h' < 24 * (grid_height' + 1)]_vars

\* A resize to a size off the cell boundary arrived after the game was lost.
C7_Witness ==
    /\ last_event.op = "resize_event"
    /\ last_event.from = "GameOver"
    /\ screen_w % 24 # 0
    /\ mode = "Menu"

session == <<mode, snake, food_x, food_y, score, time_since_last_update,
             grid_width, grid_height, pc>>

\* C9 as stated: in Menu the confirm key gives Playing, score 0, the fresh
\* snake and a valid food cell; any other key changes nothing.
C9_MenuConfirmValidFood ==
    [][(mode = "Menu" /\ KeyEvent) => \A k \in KeyCodes : key_down_event(k) =>
        IF k = "Return"
        THEN /\ mode' = "Playing"
             /\ score' = 0
             /\ snake' = FreshSnake
             /\ InInterior(food_x', food_y', grid_width', grid_height')
             /\ ~OnBody(snake'.body, food_x', food_y')
        ELSE UNCHANGED session]_vars

\* C9 amended: the food cell is valid when the grid is wider and taller
\* than 2 cells, and is left as it was on a smaller grid.
C9_MenuConfirm ==
    [][(mode = "Menu" /\ KeyEvent) => \A k \in KeyCodes : key_down_event(k) =>
        IF k = "Return"
        THEN /\ mode' = "Playing"
             /\ score' = 0
             /\ snake' = FreshSnake
             /\ FoodReassigned
        ELSE UNCHANGED session]_vars

\* The confirm key started a game on a playable grid.
C9_Witness ==
    /\ last_event.op = "key_down_event"
    /\ last_event.from = "Menu"
    /\ mode = "Playing"
    /\ grid_width > 2 /\ grid_height > 2

\* The direction a key asks for, "None" for a non-movement key.
Requested(k) ==
    CASE k \in {"Up", "W"} -> "Up"
      [] k \in {"Down", "S"} -> "Down"
      [] k \in {"Left", "A"} -> "Left"
      [] k \in {"Right", "D"} -> "Right"
      [] OTHER -> "None"

Reverse(a, b) ==
    <<a, b>> \in {<<"Up", "Down">>, <<"Down", "Up">>,
                  <<"Left", "Right">>, <<"Right", "Left">>}

\* C10: in Playing a movement key for d sets the direction to d exactly
\* when d is not the reverse of the current direction; other keys are
\* ignored; no key changes mode, body, food, score or grid dimensions.
C10_PlayingKeys ==
    [][(mode = "Playing" /\ KeyEvent) => \A k \in KeyInputs : key_down_event(k) =>
        LET d == Requested(k)
        IN /\ snake'.direction =
                 IF d # "None" /\ ~Reverse(d, snake.direction)
                 THEN d ELSE snake.direction
           /\ snake'.body = snake.body
           /\ UNCHANGED <<mode, food_x, food_y, score, grid_width, grid_height>>]_vars

\* After a move to the right a key press in Playing has turned the snake
\* upwards (a turn was accepted; the direction is no longer Right).
C10_Witness ==
    /\ last_event.op = "key_down_event"
    /\ last_event.from = "Playing"
    /\ mode = "Playing"
    /\ score >= 1
    /\ snake.body[1].x = snake.body[2].x + 1
    /\ snake.direction = "Up"

\* C11: an Update call in Menu or GameOver leaves every session field as
\* it was, whatever the elapsed time.
C11_UpdateOnlyInPlaying ==
    [][(Updated /\ mode # "Playing") => UNCHANGED session]_vars

\* An Update arrived in Menu while a partial interval was on the accumulator
\* (left there by a resize during play) and did not add to it.
C11_Witness ==
    /\ last_event.op = "update"
    /\ last_event.from = "Menu"
    /\ mode = "Menu"
    /\ time_since_last_update = 75

\* C12: an Update in Playing ticks exactly when the accumulator plus the
\* elapsed time is strictly above the interval for the current score; a
\* tick moves the snake by one cell only and zeroes the accumulator; without
\* a tick the accumulator holds the sum and the snake is as it was.
C12_OneTickPerCrossing ==
    [][(mode = "Playing" /\ Updated) => \A dt \in ElapsedMs : update(dt) =>
        LET sum == time_since_last_update + dt
            limit == IF 150 - 5 * score > 50 THEN 150 - 5 * score ELSE 50
            n == Len(snake.body)
        IN IF sum > limit
           THEN /\ time_since_last_update' = 0
                /\ snake'.body[1] # snake.body[1]
                /\ snake'.body[2] = snake.body[1]
                /\ SubSeq(snake'.body, 2, n) = SubSeq(snake.body, 1, n - 1)
                /\ Len(snake'.body) \in {n, n + 1}
           ELSE /\ time_since_last_update' = sum
                /\ snake' = snake
                /\ UNCHANGED <<mode, food_x, food_y, score>>]_vars

\* Two Updates of 75 ms have brought the accumulator exactly onto the
\* 150 ms interval of score 0 and no tick has happened.
C12_Witness ==
    /\ mode = "Playing" /\ score = 0
    /\ last_event.op = "update"
    /\ time_since_last_update = 150
    /\ snake.body = FreshSnake.body

\* C13: in milliseconds the interval between ticks is max(50, 150 - 5 *
\* score): 150 at score 0, 5 less per point, 55 at score 19, 50 at score 20
\* and 50 for every higher score.  Seen from outside: an Update ticks
\* exactly when the accumulated time is above that value.
C13_SpeedCurve ==
    [][(mode = "Playing" /\ Updated) => \A dt \in SpeedElapsedMs : update(dt) =>
        LET sum == time_since_last_update + dt
            ticks == snake'.body # snake.body
        IN /\ score < 20 => (ticks <=> sum > 150 - 5 * score)
           /\ score >= 20 => (ticks <=> sum > 50)
           /\ score = 0 => (ticks <=> sum > 150)
           /\ score = 19 => (ticks <=> sum > 55)
           /\ score = 20 => (ticks <=> sum > 50)
           /\ score = MaxScore => (ticks <=> sum > 50)]_vars

\* At score 20 ten frames of 5 ms have accumulated to exactly 50 ms and the
\* snake has not moved.
C13_Witness ==
    /\ mode = "Playing" /\ score = 20
    /\ last_event.op = "update"
    /\ time_since_last_update = 50
    /\ snake.body[1] = Block(23, 2)
    /\ grid_width = SpeedCols

\* C14: in every reachable state the body has at least 3 segments, so the
\* head (the first segment) always exists.
C14_BodyNeverEmpty ==
    /\ Len(snake.body) >= 3
    /\ 1 \in DOMAIN snake.body

\* A tick without food has removed the last segment (now held in tail) and
\* the body still has its 3 segments.
C14_Witness ==
    /\ last_event.op = "update"
    /\ last_event.from = "Playing"
    /\ snake.tail # <<>>
    /\ snake.body[1] # FreshSnake.body[1]
    /\ Len(snake.body) = 3

\* C15: AddFood always returns: whenever the grid is wider and taller than
\* 2 cells some cell inside the border ring is free of the snake, and
\* control is never left inside the sampling loop.
C15_AddFoodTerminates ==
    /\ Idle
    /\ (grid_width > 2 /\ grid_height > 2) =>
          \E x \in 1..(grid_width - 2), y \in 1..(grid_height - 2) :
              ~OnBody(snake.body, x, y)

\* C16: on a grid at most 2 cells wide or high no operation changes the
\* food cell and every operation returns; Restart and ResetToMenu set
\* snake, score and mode as on any grid and nothing else, and an eating
\* tick still counts the point.
C16_SmallGridKeepsFood ==
    [][(grid_width' <= 2 \/ grid_height' <= 2) =>
        /\ food_x' = food_x /\ food_y' = food_y
        /\ pc' = "event_loop"
        /\ (Resized \/ (KeyPressed /\ mode # "Playing" /\ mode' # mode)) =>
              /\ snake' = FreshSnake /\ score' = 0
              /\ time_since_last_update' = time_since_last_update
        /\ (KeyEvent \/ Updated) =>
              grid_width' = grid_width /\ grid_height' = grid_height
        /\ (Ticked /\ snake'.body[1].x = food_x /\ snake'.body[1].y = food_y) =>
              /\ score' = score + 1
              /\ Len(snake'.body) = Len(snake.body) + 1]_vars

\* On a grid one column wide the snake has eaten the food left at (3,1) by
\* the previous, larger grid: the point is counted, the food is still under
\* the head and the game is over (the head is outside the grid).
C16_Witness ==
    /\ (grid_width <= 2 \/ grid_height <= 2)
    /\ score = 1 /\ mode = "GameOver"
    /\ snake.body[1].x = food_x /\ snake.body[1].y = food_y
    /\ pc = "event_loop"

\* C17: a tick puts the new head one cell from the old head in the
\* direction of travel, shifts every other segment one index back, leaves
\* the direction alone and, when nothing is eaten, keeps the length and
\* records the removed last segment in tail; when food is eaten that
\* segment is appended again.  The fresh snake moves to head (4,2) with
\* length 3 and tail (1,2), or to (4,2),(3,2),(2,2),(1,2) when it eats.
C17_MoveForward ==
    [][Ticked =>
        LET n == Len(snake.body)
            d == snake.direction
            h == snake.body[1]
            dx == IF d = "Right" THEN 1 ELSE IF d = "Left" THEN -1 ELSE 0
            dy == IF d = "Down" THEN 1 ELSE IF d = "Up" THEN -1 ELSE 0
            eaten == score' # score
        IN /\ snake'.body[1] = [x |-> h.x + dx, y |-> h.y + dy]
           /\ \A i \in 1..(n - 1) : snake'.body[i + 1] = snake.body[i]
           /\ snake'.direction = d
           /\ ~eaten => Len(snake'.body) = n /\ snake'.tail = <<snake.body[n]>>
           /\ eaten => /\ Len(snake'.body) = n + 1
                       /\ snake'.body[n + 1] = snake.body[n]
                       /\ snake'.tail = <<>>
           /\ snake = FreshSnake =>
                /\ snake'.body[1] = [x |-> 4, y |-> 2]
                /\ ~eaten => /\ Len(snake'.body) = 3
                             /\ snake'.tail = <<[x |-> 1, y |-> 2]>>
                /\ eaten => snake'.body = <<[x |-> 4, y |-> 2], [x |-> 3, y |-> 2],
                                            [x |-> 2, y |-> 2], [x |-> 1, y |-> 2]>>]_vars

\* The fresh snake has made its first move to the right.
C17_Witness ==
    /\ last_event.op = "update"
    /\ snake.direction = "Right"
    /\ snake.body = <<[x |-> 4, y |-> 2], [x |-> 3, y |-> 2], [x |-> 2, y |-> 2]>>
    /\ snake.tail = <<[x |-> 1, y |-> 2]>>
    /\ score = 0

\* C18: in every reachable state the body has score + 3 segments.
C18_LengthIsScorePlus3 == Len(snake.body) = score + 3

\* Two foods have been eaten and the game goes on.
C18_Witness ==
    /\ mode = "Playing" /\ Idle
    /\ score = 2
    /\ Len(snake.body) = 5

\* C19: on a grid at least 5 wide and 4 high, in every Playing state the
\* body is a simple path inside the border ring: every segment interior,
\* consecutive segments one step apart, no two segments on one cell.
C19_BodyIsSimplePath ==
    (mode = "Playing" /\ grid_width >= 5 /\ grid_height >= 4) =>
        LET b == snake.body
            dist(p, q) == (IF p.x >= q.x THEN p.x - q.x ELSE q.x - p.x)
                          + (IF p.y >= q.y THEN p.y - q.y ELSE q.y - p.y)
        IN /\ \A i \in 1..Len(b) : InInterior(b[i].x, b[i].y, grid_width, grid_height)
           /\ \A i \in 1..(Len(b) - 1) : dist(b[i], b[i + 1]) = 1
           /\ \A i, j \in 1..Len(b) : i # j => b[i] # b[j]

\* The snake has grown, turned twice and is still playing.
C19_Witness ==
    /\ mode = "Playing" /\ Idle
    /\ grid_width >= 5 /\ grid_height >= 4
    /\ Len(snake.body) >= 4
    /\ snake.direction = "Left"
    /\ \E i \in 1..Len(snake.body) : snake.body[i].y # snake.body[1].y

\* C20: if from some point on the only events are Updates (no key press,
\* no resize), the session does not stay in Playing: a session that is in
\* Playing then ends in GameOver.
C20_EventuallyGameOver ==
    <>[](last_event.op = "update") => <>[](mode # "Playing")

TypeOK ==
    /\ mode \in GameMode
    /\ snake.direction \in Direction
    /\ Len(snake.body) >= 1
    /\ score \in Nat
    /\ pc \in {"event_loop", "add_food"}
====
